---- MODULE Spec2Model ----
(***************************************************************************)
(* A model of the orm repository: the PostgreSQL query builder             *)
(* (src/src/orm/queryBuilder/pg/index.ts), which compiles a chain of       *)
(* builder calls into a SQL text and a positional parameter list, and the  *)
(* PostgreSQL connection and transaction objects                           *)
(* (src/src/orm/connection/pg/index.ts), the metadata registry, its        *)
(* decorators and the schema builder (src/src/orm/metadata/entity/index.ts,*)
(* src/src/orm/decorators/index.ts) and the repository                     *)
(* (src/src/orm/repository/pg/index.ts).                                   *)
(*                                                                         *)
(* SQL texts are TLA+ strings, built character for character as the        *)
(* template literals of the source build them.                             *)
(***************************************************************************)
EXTENDS Integers, Sequences, FiniteSets, TLC

VARIABLES
    qb,        \* the builder the caller's variable holds
    chain,     \* the calls that compiled qb's statement, oldest first
    call,      \* the last builder call: receiver before/after, arguments, result
    client,    \* the pg.Client of the PgConnection
    txs,       \* per PgTransaction object: the COMMIT/ROLLBACK the session accepted
    outcome,   \* the last connection/transaction call and how it ended
    chains,    \* per concurrent call chain: the await it is suspended at
    issued,    \* per statement the client received: who issued it, and when
    held,      \* the PgTransaction objects the call chains obtained
    globalScope, \* the properties of the process's global object
    storages,  \* the MetadataArgsStorage instances constructed so far
    registered, \* every record the decorators pushed, oldest first
    regCall,   \* the last call on the registry or the DataSource and what it returned
    dataSource, \* the DataSource object, once constructed
    queries,   \* the calls the repository's connection received
    repoCall   \* the last repository or execute call and how it ended

qbVars == <<qb, chain, call>>
txVars == <<client, txs, outcome>>
sessVars == <<chains, issued, held>>
regVars == <<globalScope, storages, registered, regCall>>
repoVars == <<queries, repoCall>>
dsVars == <<dataSource>>
vars == <<qb, chain, call, client, txs, outcome, chains, issued, held,
          globalScope, storages, registered, regCall, dataSource, queries, repoCall>>

(***************************************************************************)
(* Bounds of the model.                                                    *)
(***************************************************************************)
\* calls in the chain that compiles one statement (a root call and its modifiers)
MaxChain == 4
\* a root call is made on a builder whose chain is at most this long
MaxRestart == 1
\* calls a run makes on the driver's client (connect, query)
MaxSent == 6
\* transaction objects a run obtains from the connection
MaxTx == 2
\* records a run registers through the decorators (tables and columns together)
MaxRegistered == 3
\* calls a run makes on the repository's connection
MaxQueries == 2

(***************************************************************************)
(* JavaScript values and strings.                                          *)
(***************************************************************************)
Undefined == [type |-> "undefined", val |-> ""]
Str(s) == [type |-> "string", val |-> s]

DQ == "\""

At(s, i) == SubSeq(s, i, i)

\* Array.prototype.join
RECURSIVE join(_, _)
join(parts, sep) ==
    IF Len(parts) = 0 THEN ""
    ELSE IF Len(parts) = 1 THEN parts[1]
    ELSE parts[1] \o sep \o join(Tail(parts), sep)

\* whether word occurs in text at position i
IsAt(text, i, word) ==
    i + Len(word) - 1 <= Len(text) /\ SubSeq(text, i, i + Len(word) - 1) = word

\* the first position >= i where word occurs in text, 0 when there is none
IndexOf(text, word, i) ==
    LET at == {k \in i..Len(text) : IsAt(text, k, word)}
    IN IF at = {} THEN 0 ELSE CHOOSE k \in at : \A m \in at : k <= m

\* String.prototype.replace with a global regular expression that matches the
\* literal text pat: every occurrence, left to right, not overlapping
RECURSIVE replaceFrom(_, _, _, _)
replaceFrom(text, pat, repl, i) ==
    LET k == IndexOf(text, pat, i)
    IN IF k = 0 THEN SubSeq(text, i, Len(text))
       ELSE SubSeq(text, i, k - 1) \o repl \o replaceFrom(text, pat, repl, k + Len(pat))

replace(text, pat, repl) == replaceFrom(text, pat, repl, 1)

Lower == <<"a","b","c","d","e","f","g","h","i","j","k","l","m",
           "n","o","p","q","r","s","t","u","v","w","x","y","z">>
Upper == <<"A","B","C","D","E","F","G","H","I","J","K","L","M",
           "N","O","P","Q","R","S","T","U","V","W","X","Y","Z">>

upperChar(c) ==
    IF \E k \in 1..Len(Lower) : Lower[k] = c
    THEN Upper[CHOOSE k \in 1..Len(Lower) : Lower[k] = c]
    ELSE c

\* String.prototype.toUpperCase
RECURSIVE toUpperCase(_)
toUpperCase(s) ==
    IF Len(s) = 0 THEN "" ELSE upperChar(At(s, 1)) \o toUpperCase(SubSeq(s, 2, Len(s)))

\* a number interpolated into a template literal
numberToString(n) == ToString(n)

\* a property list (an object literal: keys in insertion order)
keys(obj) == [i \in 1..Len(obj) |-> obj[i].key]

\* obj[key]: the value of the property, undefined when the object has none
get(obj, key) ==
    IF \E i \in 1..Len(obj) : obj[i].key = key
    THEN obj[CHOOSE i \in 1..Len(obj) : obj[i].key = key].value
    ELSE Undefined

\* {...a, ...b}: b's properties override a's
spread(a, b) ==
    [f \in (DOMAIN a) \cup (DOMAIN b) |-> IF f \in DOMAIN b THEN b[f] ELSE a[f]]

\* Function.prototype.toString of an arrow function: its source text
toString(fn) == fn.source

(***************************************************************************)
(* PgQueryBuilder.  Each method is an operator from the receiver (this),   *)
(* the reference of the object it constructs (ref) and its arguments to    *)
(* the receiver after the call and the builder returned.                   *)
(***************************************************************************)
PgQueryBuilder(ref, connection, entity) ==
    [ref |-> ref, connection |-> connection, entity |-> entity,
     sql |-> "", params |-> <<>>]

\* the method returned the builder ret
Returned(this, ret) == [this |-> this, threw |-> FALSE, ret |-> ret]

\* the method threw a TypeError before it returned
Threw(this) == [this |-> this, threw |-> TRUE, ret |-> Undefined]

\* quoted, leaving the quotes out
quoted_bare(name) == name

quoted(name) == DQ \o name \o DQ

select(this, ref, columns) ==
    LET qb0 == PgQueryBuilder(ref, this.connection, this.entity)
        cols == [i \in 1..Len(columns) |-> quoted(columns[i])]
    IN Returned(this,
                [qb0 EXCEPT !.sql =
                     "SELECT " \o join(cols, ", ") \o " FROM " \o quoted(this.entity.tableName)])

\* bindValue, pushing the undefined value too
bindValue_pushAll(params, value) ==
    IF value = Undefined
    THEN [text |-> "NULL", params |-> Append(params, value)]
    ELSE [text |-> "$" \o numberToString(Len(params) + 1), params |-> Append(params, value)]

\* one value of a row or of an update: NULL inline for undefined, otherwise the
\* value is pushed and its placeholder is the new length of params
bindValue(params, value) ==
    IF value = Undefined
    THEN [text |-> "NULL", params |-> params]
    ELSE [text |-> "$" \o numberToString(Len(params) + 1), params |-> Append(params, value)]

\* rowValues, leaving an undefined value out of the row instead of writing NULL
RECURSIVE rowValues_skipUndefined(_, _, _)
rowValues_skipUndefined(params, columns, row) ==
    IF Len(columns) = 0 THEN [texts |-> <<>>, params |-> params]
    ELSE IF get(row, columns[1]) = Undefined
         THEN rowValues_skipUndefined(params, Tail(columns), row)
         ELSE LET rest == rowValues_skipUndefined(Append(params, get(row, columns[1])),
                                                  Tail(columns), row)
              IN [texts |-> <<"$" \o numberToString(Len(params) + 1)>> \o rest.texts,
                  params |-> rest.params]

\* columns.map(...) over one row: the texts of its values and the params after it
RECURSIVE rowValues(_, _, _)
rowValues(params, columns, row) ==
    IF Len(columns) = 0 THEN [texts |-> <<>>, params |-> params]
    ELSE LET b == bindValue(params, get(row, columns[1]))
             rest == rowValues(b.params, Tail(columns), row)
         IN [texts |-> <<b.text>> \o rest.texts, params |-> rest.params]

\* insertRows, numbering the placeholders of each row from $1
RECURSIVE insertRows_perRow(_, _, _, _, _)
insertRows_perRow(sql, params, columns, rows, i) ==
    IF i > Len(rows) THEN [sql |-> sql, params |-> params]
    ELSE LET v == rowValues(<<>>, columns, rows[i])
             s1 == sql \o "(" \o join(v.texts, ", ") \o ")"
             s2 == IF i < Len(rows) THEN s1 \o ", " ELSE s1
         IN insertRows_perRow(s2, params \o v.params, columns, rows, i + 1)

\* the loop over the rows, from row i on
RECURSIVE insertRows(_, _, _, _, _)
insertRows(sql, params, columns, rows, i) ==
    IF i > Len(rows) THEN [sql |-> sql, params |-> params]
    ELSE LET v == rowValues(params, columns, rows[i])
             s1 == sql \o "(" \o join(v.texts, ", ") \o ")"
             s2 == IF i < Len(rows) THEN s1 \o ", " ELSE s1
         IN insertRows(s2, v.params, columns, rows, i + 1)

\* insert, taking the column set from the last row's keys
insert_lastRowKeys(this, ref, rows) ==
    LET qb0 == PgQueryBuilder(ref, this.connection, this.entity)
        columns == keys(rows[Len(rows)])
        cols == [i \in 1..Len(columns) |-> quoted(columns[i])]
        head == "INSERT INTO " \o quoted(this.entity.tableName) \o " ("
                    \o join(cols, ", ") \o ") VALUES"
        done == insertRows(head, qb0.params, columns, rows, 1)
    IN IF Len(rows) = 0 THEN Threw(this)
       ELSE Returned(this,
                [qb0 EXCEPT !.sql = done.sql, !.params = done.params])

insert(this, ref, rows) ==
    LET qb0 == PgQueryBuilder(ref, this.connection, this.entity)
        columns == keys(rows[1])
        cols == [i \in 1..Len(columns) |-> quoted(columns[i])]
        head == "INSERT INTO " \o quoted(this.entity.tableName) \o " ("
                    \o join(cols, ", ") \o ") VALUES"
        done == insertRows(head, qb0.params, columns, rows, 1)
    IN IF Len(rows) = 0 THEN Threw(this)   \* Object.keys(undefined)
       ELSE Returned(this,
                [qb0 EXCEPT !.sql = done.sql, !.params = done.params])

\* the loop over the keys of an update, from key i on
RECURSIVE updateKeys(_, _, _, _, _)
updateKeys(sql, params, ks, columns, i) ==
    IF i > Len(ks) THEN [sql |-> sql, params |-> params]
    ELSE LET b == bindValue(params, get(columns, ks[i]))
             s1 == sql \o " " \o quoted(ks[i]) \o " =" \o " " \o b.text
             s2 == IF i < Len(ks) THEN s1 \o ", " ELSE s1
         IN updateKeys(s2, b.params, ks, columns, i + 1)

\* update, numbering its placeholders after the receiver's params
update_keepParams(this, ref, columns) ==
    LET qb0 == PgQueryBuilder(ref, this.connection, this.entity)
        head == "UPDATE " \o quoted(this.entity.tableName) \o " SET"
        done == updateKeys(head, this.params, keys(columns), columns, 1)
    IN Returned(this,
                [qb0 EXCEPT !.sql = done.sql, !.params = done.params])

update(this, ref, columns) ==
    LET qb0 == PgQueryBuilder(ref, this.connection, this.entity)
        head == "UPDATE " \o quoted(this.entity.tableName) \o " SET"
        done == updateKeys(head, qb0.params, keys(columns), columns, 1)
    IN Returned(this,
                [qb0 EXCEPT !.sql = done.sql, !.params = done.params])

delete(this, ref) ==
    LET qb0 == PgQueryBuilder(ref, this.connection, this.entity)
    IN Returned(this,
                [qb0 EXCEPT !.sql = "DELETE FROM " \o quoted(this.entity.tableName)])

\* the join condition: the text of the on function with t. and u. replaced
joinCondition(this, entity, on) ==
    replace(replace(toString(on), "t.", quoted(this.entity.tableName) \o "."),
            "u.", quoted(entity.tableName) \o ".")

join2(this, ref, kind, entity, on) ==
    LET qb0 == PgQueryBuilder(ref, this.connection, spread(this.entity, entity))
    IN Returned(this,
                [qb0 EXCEPT !.sql =
                     "SELECT * FROM " \o quoted(this.entity.tableName) \o " " \o kind
                        \o " JOIN " \o quoted(entity.tableName) \o " ON"
                        \o joinCondition(this, entity, on)])

innerJoin(this, ref, entity, on) == join2(this, ref, "INNER", entity, on)

leftJoin(this, ref, entity, on) == join2(this, ref, "LEFT", entity, on)

\* the where condition: the text of the condition function with t. replaced
whereCondition(this, condition1) ==
    replace(toString(condition1), "t.", quoted(this.entity.tableName) \o ".")

\* where, appending to the receiver's own sql and returning the receiver
where_inPlace(this, ref, condition1) ==
    LET q == [this EXCEPT !.sql = this.sql \o " WHERE" \o
                                     replace(toString(condition1), "t.",
                                             DQ \o this.entity.tableName \o DQ \o ".")]
    IN Returned(q, q)

where(this, ref, condition1) ==
    LET qb0 == PgQueryBuilder(ref, this.connection, this.entity)
    IN Returned(this,
                [qb0 EXCEPT !.sql = this.sql \o " WHERE" \o whereCondition(this, condition1)])

orderBy(this, ref, column, direction) ==
    LET qb0 == PgQueryBuilder(ref, this.connection, this.entity)
    IN Returned(this,
                [qb0 EXCEPT !.sql = this.sql \o " ORDER BY " \o quoted(column) \o " "
                                        \o toUpperCase(direction)])

\* limit, starting the sql over instead of appending to the receiver's
limit_fromScratch(this, ref, count) ==
    LET qb0 == PgQueryBuilder(ref, this.connection, this.entity)
    IN Returned(this,
                [qb0 EXCEPT !.sql = " LIMIT " \o numberToString(count)])

limit(this, ref, count) ==
    LET qb0 == PgQueryBuilder(ref, this.connection, this.entity)
    IN Returned(this,
                [qb0 EXCEPT !.sql = this.sql \o " LIMIT " \o numberToString(count)])

offset(this, ref, count) ==
    LET qb0 == PgQueryBuilder(ref, this.connection, this.entity)
    IN Returned(this,
                [qb0 EXCEPT !.sql = this.sql \o " OFFSET " \o numberToString(count)])

(***************************************************************************)
(* The inputs the builder calls are drawn from.                            *)
(***************************************************************************)
Prop(k, v) == [key |-> k, value |-> v]

Comments ==
    [tableName |-> "comments",
     columns |-> <<Prop("id", "int"), Prop("content", "text"), Prop("postId", "int")>>]

Users ==
    [tableName |-> "users",
     columns |-> <<Prop("id", "int"), Prop("name", "varchar(255)"),
                   Prop("email", "varchar(255)")>>]

Entities == {Comments, Users}

JoinEntities == {Users}

Connections == {"connection1", "connection2"}

ColumnLists == {<<>>, <<"id", "content">>, <<"name", "email", "id">>}

RowBatches ==
    {<<>>,
     <<<<Prop("name", Str("A")), Prop("email", Str("a@x.com"))>>,
       <<Prop("name", Str("B")), Prop("email", Undefined)>>>>,
     <<<<Prop("name", Str("A")), Prop("email", Str("a@x.com"))>>,
       <<Prop("name", Str("B")), Prop("email", Str("b@x.com"))>>>>,
     <<<<Prop("name", Undefined), Prop("email", Str("a@x.com"))>>,
       <<Prop("email", Str("b@x.com"))>>,
       <<Prop("name", Str("C")), Prop("email", Str("c@x.com"))>>>>,
     <<<<Prop("content", Str("hello"))>>,
       <<Prop("content", Str("bye")), Prop("postId", Str("5"))>>>>,
     <<<<Prop("name", Str("A")), Prop("email", Str("a@x.com"))>>,
       <<Prop("email", Str("b@x.com")), Prop("id", Str("9"))>>>>,
     <<<<Prop("id", Str("1")), Prop("content", Str("hello")), Prop("postId", Str("5"))>>>>}

UpdateColumns ==
    {<<Prop("name", Str("A")), Prop("email", Undefined)>>,
     <<Prop("name", Undefined), Prop("email", Str("a@x.com")), Prop("id", Str("7"))>>,
     <<Prop("content", Str("hello"))>>}

\* an arrow function param => param.column op rhs, written with or without
\* parentheses around its parameter; source is the text toString() gives for it
\* (arrow functions are kept as written when the TypeScript is compiled)
Arrow(parens, param, column, op, rhs) ==
    [source |-> (IF parens THEN "(" \o param \o ")" ELSE param) \o " => "
                    \o param \o "." \o column \o " " \o op \o " " \o rhs,
     param |-> param, column |-> column, op |-> op, rhs |-> rhs]

Conditions ==
    {Arrow(FALSE, "c", "postId", "==", "5"),
     Arrow(TRUE, "t", "id", "===", "1")}

\* an arrow function (t, u) => t.left op u.right
OnConditions ==
    {[source |-> "(t, u) => t.id === u.postId",
      left |-> "id", op |-> "===", right |-> "postId"]}

Orderings == {<<"id", "asc">>, <<"name", "desc">>}

Counts == {10}

(***************************************************************************)
(* The query-builder specification: a caller holds a builder in a variable *)
(* and chains one method after another, qb = qb.select(...).where(...).    *)
(* A root call starts a new statement, a modifier extends the statement.   *)
(***************************************************************************)
NoCall == [op |-> "none"]

\* the reference new returns: one no live object has
newRef(live) == CHOOSE r \in 1..(Cardinality(live) + 1) : r \notin live

Roots == {"select", "insert", "update", "delete", "innerJoin", "leftJoin"}

Call(op, args, r) ==
    /\ call' = [op |-> op, args |-> args, receiver |-> qb,
                this |-> r.this, threw |-> r.threw, ret |-> r.ret]
    /\ IF r.threw
       THEN qb' = r.this /\ chain' = chain
       ELSE /\ qb' = r.ret
            /\ chain' = IF op \in Roots THEN <<[op |-> op, args |-> args]>>
                        ELSE Append(chain, [op |-> op, args |-> args])
    /\ UNCHANGED <<txVars, sessVars, regVars, repoVars, dsVars>>

Select ==
    /\ Len(chain) <= MaxRestart
    /\ \E columns \in ColumnLists :
          Call("select", [columns |-> columns], select(qb, newRef({qb.ref}), columns))

Insert ==
    /\ Len(chain) <= MaxRestart
    /\ \E rows \in RowBatches :
          Call("insert", [rows |-> rows], insert(qb, newRef({qb.ref}), rows))

Update ==
    /\ Len(chain) <= MaxRestart
    /\ \E columns \in UpdateColumns :
          Call("update", [columns |-> columns], update(qb, newRef({qb.ref}), columns))

Delete ==
    /\ Len(chain) <= MaxRestart
    /\ Call("delete", [none |-> TRUE], delete(qb, newRef({qb.ref})))

InnerJoin ==
    /\ Len(chain) <= MaxRestart
    /\ \E entity \in JoinEntities, on \in OnConditions :
          Call("innerJoin", [entity |-> entity, on |-> on],
               innerJoin(qb, newRef({qb.ref}), entity, on))

LeftJoin ==
    /\ Len(chain) <= MaxRestart
    /\ \E entity \in JoinEntities, on \in OnConditions :
          Call("leftJoin", [entity |-> entity, on |-> on],
               leftJoin(qb, newRef({qb.ref}), entity, on))

Where ==
    /\ Len(chain) < MaxChain
    /\ \E condition \in Conditions :
          Call("where", [condition |-> condition], where(qb, newRef({qb.ref}), condition))

OrderBy ==
    /\ Len(chain) < MaxChain
    /\ \E o \in Orderings :
          Call("orderBy", [column |-> o[1], direction |-> o[2]],
               orderBy(qb, newRef({qb.ref}), o[1], o[2]))

Limit ==
    /\ Len(chain) < MaxChain
    /\ \E count \in Counts :
          Call("limit", [count |-> count], limit(qb, newRef({qb.ref}), count))

Offset ==
    /\ Len(chain) < MaxChain
    /\ \E count \in Counts :
          Call("offset", [count |-> count], offset(qb, newRef({qb.ref}), count))

(***************************************************************************)
(* PgConnection and PgTransaction over the driver's client (pg.Client).    *)
(* The driver is an external collaborator: each of its calls (connect,     *)
(* query, end) either resolves or rejects, and which it does is an input   *)
(* of the method (the ...Ok arguments).  client records the calls the      *)
(* driver received.  Each method is an operator from the client before the *)
(* call to the client after it and the result of the call.                 *)
(***************************************************************************)
Resolved(value) == [ok |-> TRUE, value |-> value, error |-> ""]
Rejected(error) == [ok |-> FALSE, value |-> "", error |-> error]

DriverError == "driver error"

\* await this.client.connect()
clientConnect(c) == [c EXCEPT !.connectCalls = @ + 1]

\* await this.client.query(sql, params)
clientQuery(c, sql) == [c EXCEPT !.sent = Append(@, sql)]

\* await this.client.end()
clientEnd(c) == [c EXCEPT !.endCalls = @ + 1]

PgConnection_query(c, sql, connectOk, queryOk) ==
    IF ~connectOk
    THEN [client |-> clientConnect(c), result |-> Rejected(DriverError)]
    ELSE [client |-> clientQuery(clientConnect(c), sql),
          result |-> IF queryOk THEN Resolved("result") ELSE Rejected(DriverError)]

PgConnection_beginTransaction(c, queryOk) ==
    [client |-> clientQuery(c, "BEGIN"),
     result |-> IF queryOk THEN Resolved("PgTransaction") ELSE Rejected(DriverError)]

PgConnection_close(c, endOk) ==
    [client |-> clientEnd(c),
     result |-> IF endOk THEN Resolved("") ELSE Rejected(DriverError)]

PgTransaction_query(c, sql, connectOk, queryOk) ==
    PgConnection_query(c, sql, connectOk, queryOk)

\* beginTransaction, sending BEGIN to the client before it throws
PgTransaction_beginTransaction_begins(c) ==
    [client |-> clientQuery(c, "BEGIN"), result |-> Rejected("Cannot begin a nested transaction")]

PgTransaction_beginTransaction(c) ==
    [client |-> c, result |-> Rejected("Cannot begin a nested transaction")]

PgTransaction_commit(c, connectOk, queryOk) ==
    PgConnection_query(c, "COMMIT", connectOk, queryOk)

PgTransaction_rollback(c, connectOk, queryOk) ==
    PgConnection_query(c, "ROLLBACK", connectOk, queryOk)

\* close, passed on to the connection like query is
PgTransaction_close_passedOn(c) == PgConnection_close(c, TRUE)

PgTransaction_close(c) ==
    [client |-> c, result |-> Rejected("Cannot close a transaction")]

(***************************************************************************)
(* The transaction specification: one PgConnection, the transaction        *)
(* objects obtained from it, and a caller that awaits one call at a time.  *)
(* txs[t] lists the COMMIT and ROLLBACK calls on transaction t that        *)
(* resolved.                                                               *)
(***************************************************************************)
Statements == {"SELECT 1"}

DriverCalls(c) == c.connectCalls + Len(c.sent)

Done(op, t, r) ==
    /\ outcome' = [op |-> op, tx |-> t, before |-> client, result |-> r.result]
    /\ client' = r.client
    /\ UNCHANGED <<qbVars, sessVars, regVars, repoVars, dsVars>>

ConnQuery ==
    /\ DriverCalls(client) + 2 <= MaxSent
    /\ \E sql \in Statements, connectOk \in BOOLEAN, queryOk \in BOOLEAN :
          Done("query", 0, PgConnection_query(client, sql, connectOk, queryOk))
    /\ UNCHANGED txs

ConnBeginTransaction ==
    /\ DriverCalls(client) + 1 <= MaxSent
    /\ Len(txs) < MaxTx
    /\ \E queryOk \in BOOLEAN :
          LET r == PgConnection_beginTransaction(client, queryOk)
          IN /\ Done("beginTransaction", 0, r)
             /\ txs' = IF r.result.ok THEN Append(txs, <<>>) ELSE txs

ConnClose ==
    /\ client.endCalls = 0
    /\ \E endOk \in BOOLEAN : Done("close", 0, PgConnection_close(client, endOk))
    /\ UNCHANGED txs

TxQuery ==
    /\ DriverCalls(client) + 2 <= MaxSent
    /\ \E t \in DOMAIN txs, sql \in Statements, connectOk \in BOOLEAN, queryOk \in BOOLEAN :
          Done("tx.query", t, PgTransaction_query(client, sql, connectOk, queryOk))
    /\ UNCHANGED txs

TxBeginTransaction ==
    /\ \E t \in DOMAIN txs :
          Done("tx.beginTransaction", t, PgTransaction_beginTransaction(client))
    /\ UNCHANGED txs

TxCommit ==
    /\ DriverCalls(client) + 2 <= MaxSent
    /\ \E t \in DOMAIN txs, connectOk \in BOOLEAN, queryOk \in BOOLEAN :
          LET r == PgTransaction_commit(client, connectOk, queryOk)
          IN /\ Done("tx.commit", t, r)
             /\ txs' = IF r.result.ok THEN [txs EXCEPT ![t] = Append(@, "COMMIT")] ELSE txs

TxRollback ==
    /\ DriverCalls(client) + 2 <= MaxSent
    /\ \E t \in DOMAIN txs, connectOk \in BOOLEAN, queryOk \in BOOLEAN :
          LET r == PgTransaction_rollback(client, connectOk, queryOk)
          IN /\ Done("tx.rollback", t, r)
             /\ txs' = IF r.result.ok THEN [txs EXCEPT ![t] = Append(@, "ROLLBACK")] ELSE txs

TxClose ==
    /\ \E t \in DOMAIN txs : Done("tx.close", t, PgTransaction_close(client))
    /\ UNCHANGED txs

(***************************************************************************)
(* Concurrent call chains on one PgConnection.  Every await of a method is *)
(* a step: a call chain runs from one await to the next without            *)
(* interruption, and other chains run while it is suspended.  The client   *)
(* queues the statements it is handed and the session executes them in     *)
(* that order, so client.sent is the order of execution on the session.    *)
(* issued[i] tells of the i-th statement which chain issued it, through    *)
(* which object (0: the connection, t: the transaction held[t]) and which  *)
(* transactions were open at that moment.  A transaction is open from the  *)
(* moment beginTransaction returned it until its COMMIT or ROLLBACK is     *)
(* handed to the client.                                                   *)
(***************************************************************************)
Chains == {1, 2}

Idle == [pc |-> "idle", via |-> 0, sql |-> ""]

OpenTransactions == {t \in DOMAIN held : ~held[t].ended}

\* the driver calls the suspended chains will still make
Pending == Cardinality({c \in Chains : chains[c].pc = "connect"})

\* PgConnection.query up to its first await: this.client.connect() is called
queryStart(c, via, sql) ==
    /\ chains[c].pc = "idle"
    /\ DriverCalls(client) + Pending + 2 <= MaxSent
    /\ client' = clientConnect(client)
    /\ chains' = [chains EXCEPT ![c] = [pc |-> "connect", via |-> via, sql |-> sql]]
    /\ UNCHANGED <<issued, held>>

\* connection.query(sql) called by chain c
SessQuery ==
    /\ \E c \in Chains, sql \in Statements : queryStart(c, 0, sql)
    /\ UNCHANGED <<qbVars, txs, outcome, regVars, repoVars, dsVars>>

\* tx.query(sql) called by the chain that holds tx
SessTxQuery ==
    /\ \E c \in Chains, sql \in Statements :
          \E t \in {u \in DOMAIN held : held[u].chain = c} : queryStart(c, t, sql)
    /\ UNCHANGED <<qbVars, txs, outcome, regVars, repoVars, dsVars>>

\* tx.commit() called by the chain that holds tx
SessTxCommit ==
    /\ \E c \in Chains :
          \E t \in {u \in DOMAIN held : held[u].chain = c} : queryStart(c, t, "COMMIT")
    /\ UNCHANGED <<qbVars, txs, outcome, regVars, repoVars, dsVars>>

\* tx.rollback() called by the chain that holds tx
SessTxRollback ==
    /\ \E c \in Chains :
          \E t \in {u \in DOMAIN held : held[u].chain = c} : queryStart(c, t, "ROLLBACK")
    /\ UNCHANGED <<qbVars, txs, outcome, regVars, repoVars, dsVars>>

\* await this.client.connect() settles: on success this.client.query(sql, params)
\* is called, on failure the method throws
SessConnectSettled ==
    /\ \E c \in Chains, connectOk \in BOOLEAN :
          /\ chains[c].pc = "connect"
          /\ IF connectOk
             THEN /\ client' = clientQuery(client, chains[c].sql)
                  /\ issued' = Append(issued, [chain |-> c, via |-> chains[c].via,
                                               open |-> OpenTransactions])
                  /\ held' = IF chains[c].sql \in {"COMMIT", "ROLLBACK"}
                             THEN [held EXCEPT ![chains[c].via].ended = TRUE]
                             ELSE held
                  /\ chains' = [chains EXCEPT ![c].pc = "query"]
             ELSE /\ chains' = [chains EXCEPT ![c] = Idle]
                  /\ UNCHANGED <<client, issued, held>>
    /\ UNCHANGED <<qbVars, txs, outcome, regVars, repoVars, dsVars>>

\* await this.client.query(sql, params) settles: the method returns or throws
SessQuerySettled ==
    /\ \E c \in Chains :
          /\ chains[c].pc = "query"
          /\ chains' = [chains EXCEPT ![c] = Idle]
    /\ UNCHANGED <<client, issued, held>>
    /\ UNCHANGED <<qbVars, txs, outcome, regVars, repoVars, dsVars>>

\* connection.beginTransaction() up to its await: this.client.query("BEGIN")
SessBeginTransaction ==
    /\ \E c \in Chains :
          /\ chains[c].pc = "idle"
          /\ Len(held) < MaxTx
          /\ DriverCalls(client) + Pending + 1 <= MaxSent
          /\ client' = clientQuery(client, "BEGIN")
          /\ issued' = Append(issued, [chain |-> c, via |-> 0, open |-> OpenTransactions])
          /\ chains' = [chains EXCEPT ![c] = [pc |-> "begin", via |-> 0, sql |-> "BEGIN"]]
    /\ UNCHANGED held
    /\ UNCHANGED <<qbVars, txs, outcome, regVars, repoVars, dsVars>>

\* await this.client.query("BEGIN") settles: new PgTransaction(this) is returned,
\* or the method throws
SessBeginSettled ==
    /\ \E c \in Chains, queryOk \in BOOLEAN :
          /\ chains[c].pc = "begin"
          /\ held' = IF queryOk THEN Append(held, [chain |-> c, ended |-> FALSE]) ELSE held
          /\ chains' = [chains EXCEPT ![c] = Idle]
    /\ UNCHANGED <<client, issued>>
    /\ UNCHANGED <<qbVars, txs, outcome, regVars, repoVars, dsVars>>

InitSess ==
    /\ chains = [c \in Chains |-> Idle]
    /\ issued = <<>>
    /\ held = <<>>

NextSess ==
    \/ SessQuery
    \/ SessTxQuery
    \/ SessTxCommit
    \/ SessTxRollback
    \/ SessConnectSettled
    \/ SessQuerySettled
    \/ SessBeginTransaction
    \/ SessBeginSettled

(***************************************************************************)
(* The metadata registry.  A class (the target of a record) is an object   *)
(* with an identity (ref) and a name; === on two classes compares the      *)
(* identities.  globalScope is the global object of the process,           *)
(* storages[r] the MetadataArgsStorage instance with reference r.  The     *)
(* functions below have no await: JavaScript runs each call to completion  *)
(* before any other call chain of the process runs, so each is one step.   *)
(***************************************************************************)
Num(n) == [type |-> "number", val |-> numberToString(n)]
Bool(b) == [type |-> "boolean", val |-> IF b THEN "true" ELSE "false"]
Null == [type |-> "null", val |-> ""]
Array(items) == [type |-> "array", items |-> items]
Object(props) == [type |-> "object", props |-> props]

\* typeof v
typeof(v) == v.type

\* whether v counts as true in a condition
truthy(v) ==
    CASE v.type \in {"undefined", "null"} -> FALSE
      [] v.type = "boolean" -> v.val = "true"
      [] v.type = "string" -> v.val # ""
      [] v.type = "number" -> v.val # "0"
      [] OTHER -> TRUE

\* a ?? b
nullish(a, b) == IF a = Undefined THEN b ELSE a

Class(ref, name) == [ref |-> ref, name |-> name]

\* GlobalTools.getGlobalVariable(): the global object, which has no
\* ormMetadataArgsStorage property (0) until one is assigned
GlobalTools_getGlobalVariable(g) == g

\* new MetadataArgsStorage()
MetadataArgsStorage == [tables |-> <<>>, columns |-> <<>>]

\* getMetadataArgsStorage, constructing a storage on every call
getMetadataArgsStorage_fresh(g, heap) ==
    [globalScope |-> [g EXCEPT !.ormMetadataArgsStorage = Len(heap) + 1],
     storages |-> Append(heap, MetadataArgsStorage),
     ret |-> Len(heap) + 1]

\* the global object and the instances after the call, and the reference returned
getMetadataArgsStorage(g, heap) ==
    LET globalScope0 == GlobalTools_getGlobalVariable(g)
    IN IF globalScope0.ormMetadataArgsStorage = 0
       THEN [globalScope |-> [globalScope0 EXCEPT !.ormMetadataArgsStorage = Len(heap) + 1],
             storages |-> Append(heap, MetadataArgsStorage),
             ret |-> Len(heap) + 1]
       ELSE [globalScope |-> globalScope0, storages |-> heap,
             ret |-> globalScope0.ormMetadataArgsStorage]

\* a target argument: one class, or a list of classes
One(target) == [isArray |-> FALSE, items |-> <<target>>]
List(targets) == [isArray |-> TRUE, items |-> targets]

\* Array.prototype.indexOf(x) !== -1
includes(items, x) == \E k \in 1..Len(items) : items[k] = x

\* filterByTarget, comparing the names of the targets
filterByTarget_byName(array, target) ==
    SelectSeq(array, LAMBDA table : \E k \in 1..Len(target.items) :
                                        target.items[k].name = table.target.name)

filterByTarget(array, target) ==
    SelectSeq(array, LAMBDA table :
                         IF target.isArray
                         THEN includes(target.items, table.target)
                         ELSE table.target = target.items[1])

\* filterTables, returning every table whatever the target
filterTables_unfiltered(storage, target) == storage.tables

filterTables(storage, target) == filterByTarget(storage.tables, target)

filterColumns(storage, target) == filterByTarget(storage.columns, One(target))

\* EntityMetadataBuilder.build, listing the schemas in the order of its argument
build_argumentOrder(storage, entityClasses) ==
    LET RECURSIVE Concat(_)
        Concat(ss) == IF Len(ss) = 0 THEN <<>> ELSE ss[1] \o Concat(Tail(ss))
        allTables == IF entityClasses # Undefined
                     THEN Concat([k \in 1..Len(entityClasses.items) |->
                                     filterTables(storage, One(entityClasses.items[k]))])
                     ELSE storage.tables
    IN [k \in 1..Len(allTables) |->
           [target |-> allTables[k].target, name |-> allTables[k].name,
            type |-> allTables[k].type,
            columns |-> filterColumns(storage, allTables[k].target)]]

\* EntityMetadataBuilder.build(entityClasses); entityClasses = Undefined when
\* the argument is left out
build(storage, entityClasses) ==
    LET allTables == IF entityClasses # Undefined
                     THEN filterTables(storage, entityClasses)
                     ELSE storage.tables
    IN [k \in 1..Len(allTables) |->
           [target |-> allTables[k].target, name |-> allTables[k].name,
            type |-> allTables[k].type,
            columns |-> filterColumns(storage, allTables[k].target)]]

\* push, leaving out a record whose target already has one in the array
push_unique(array, record) ==
    IF \E k \in 1..Len(array) : array[k].target = record.target
    THEN array
    ELSE Append(array, record)

\* Array.prototype.push
push(array, record) == Append(array, record)

\* the record Entity(name) pushes for the class target
EntityRecord(name, target) == [target |-> target, name |-> name, type |-> "regular"]

\* options?.key
optional(options, key) == IF options = Undefined THEN Undefined ELSE get(options.props, key)

\* the type of the record Column(options) pushes:
\* options?.type ?? typeof object[propertyName] == "string" ? "varchar(255)" : "int",
\* in which == binds tighter than ??, and ?? tighter than ? :
columnType(options, object, propertyName) ==
    LET test == nullish(optional(options, "type"),
                        Bool(typeof(get(object.properties, propertyName)) = "string"))
    IN IF truthy(test) THEN "varchar(255)" ELSE "int"

\* the record Column(options) pushes for the property propertyName of object
ColumnRecord(options, object, propertyName) ==
    [target |-> object.constructor,
     propertyName |-> nullish(optional(options, "name"), Str(propertyName)).val,
     type |-> columnType(options, object, propertyName)]

(***************************************************************************)
(* The inputs of the registry calls.                                       *)
(***************************************************************************)
User == Class(1, "User")
UserTwin == Class(2, "User")
Post == Class(3, "Post")

Targets == {User, UserTwin, Post}

TargetLists == {<<>>, <<Post, User>>, <<UserTwin>>}

\* the classes @Entity(name) is applied to: two with a name, one without
EntityDeclarations ==
    {[name |-> Str("users"), target |-> User],
     [name |-> Str("users"), target |-> UserTwin],
     [name |-> Undefined, target |-> Post]}

ColumnOptions ==
    {Undefined,
     Object(<<Prop("type", Str("int"))>>),
     Object(<<Prop("type", Str("varchar(255)")), Prop("name", Str("email"))>>)}

\* the prototype of a class: the property id has no value, or a string, on it
Prototypes ==
    {[constructor |-> cls, properties |-> ps] :
        cls \in {User, UserTwin}, ps \in {<<>>, <<Prop("id", Str("x"))>>}}

PropertyNames == {"id"}

(***************************************************************************)
(* The registry specification: the call chains of the process register     *)
(* tables and columns through the decorators and read the registry back.   *)
(* Every action is a call any of the call chains makes.                    *)
(***************************************************************************)
\* the registry call op(args) returned ret, leaving the call's effect in got
RegDone(op, args, got, ret) ==
    /\ regCall' = [op |-> op, args |-> args, before |-> storages,
                   storage |-> got.ret, ret |-> ret]
    /\ globalScope' = got.globalScope
    /\ UNCHANGED <<qbVars, txVars, sessVars, repoVars, dsVars>>

\* getMetadataArgsStorage()
RegGetStorage ==
    /\ \E got \in {getMetadataArgsStorage(globalScope, storages)} :
          /\ RegDone("getMetadataArgsStorage", <<>>, got, got.ret)
          /\ storages' = got.storages
    /\ UNCHANGED registered

\* Entity(name)(target)
RegEntity ==
    /\ Len(registered) < MaxRegistered
    /\ \E declaration \in EntityDeclarations :
          LET got == getMetadataArgsStorage(globalScope, storages)
              record == EntityRecord(declaration.name, declaration.target)
          IN /\ RegDone("Entity", declaration, got, record)
             /\ storages' = [got.storages EXCEPT ![got.ret].tables = push(@, record)]
             /\ registered' = Append(registered, [kind |-> "table", record |-> record])

\* Column(options)(object, propertyName)
RegColumn ==
    /\ Len(registered) < MaxRegistered
    /\ \E options \in ColumnOptions, object \in Prototypes, propertyName \in PropertyNames :
          LET got == getMetadataArgsStorage(globalScope, storages)
              record == ColumnRecord(options, object, propertyName)
          IN /\ RegDone("Column", [options |-> options, object |-> object,
                                   propertyName |-> propertyName], got, record)
             /\ storages' = [got.storages EXCEPT ![got.ret].columns = push(@, record)]
             /\ registered' = Append(registered, [kind |-> "column", record |-> record])

\* getMetadataArgsStorage().filterTables(target)
RegFilterTables ==
    /\ \E target \in {One(t) : t \in Targets} \cup {List(l) : l \in TargetLists} :
          LET got == getMetadataArgsStorage(globalScope, storages)
          IN /\ RegDone("filterTables", [target |-> target], got,
                        filterTables(got.storages[got.ret], target))
             /\ storages' = got.storages
    /\ UNCHANGED registered

\* getMetadataArgsStorage().filterColumns(target)
RegFilterColumns ==
    /\ \E target \in Targets :
          LET got == getMetadataArgsStorage(globalScope, storages)
          IN /\ RegDone("filterColumns", [target |-> One(target)], got,
                        filterColumns(got.storages[got.ret], target))
             /\ storages' = got.storages
    /\ UNCHANGED registered

\* new EntityMetadataBuilder(getMetadataArgsStorage()).build(entityClasses)
RegBuild ==
    /\ \E entityClasses \in {Undefined} \cup {List(l) : l \in TargetLists} :
          LET got == getMetadataArgsStorage(globalScope, storages)
          IN /\ RegDone("build", [target |-> entityClasses], got,
                        build(got.storages[got.ret], entityClasses))
             /\ storages' = got.storages
    /\ UNCHANGED registered

InitReg ==
    /\ globalScope = [ormMetadataArgsStorage |-> 0]
    /\ storages = <<>>
    /\ registered = <<>>
    /\ regCall = [op |-> "none"]

NextReg ==
    \/ RegGetStorage
    \/ RegEntity
    \/ RegColumn
    \/ RegFilterTables
    \/ RegFilterColumns
    \/ RegBuild

(***************************************************************************)
(* PgQueryBuilder.execute and PgRepository over the Connection interface.  *)
(* The connection is an external collaborator: its query(sql, params)      *)
(* settles with a result object or with an error, and how it settles is an *)
(* input of the call (settled).  Each method is an operator to the calls   *)
(* the connection received (queries), the receiver afterwards and the      *)
(* outcome of the method's promise.                                        *)
(***************************************************************************)
\* the promise resolved with value / rejected with error
Fulfilled(value) == [ok |-> TRUE, value |-> value, error |-> ""]
Failed(error) == [ok |-> FALSE, value |-> Undefined, error |-> error]

\* connection.query(sql, params), as the connection receives it
QueryCall(connection, sql, params) ==
    [connection |-> connection, sql |-> sql, params |-> params]

\* a[i] of an array (i counted from 0): undefined past its end
index(a, i) == IF i + 1 <= Len(a.items) THEN a.items[i + 1] ELSE Undefined

\* v.rowCount: an array has no such property
rowCountOf(v) == IF v.type = "result" THEN Num(v.rowCount) ELSE Undefined

\* execute, calling query a second time when the first call fails
execute_retry(this, settled) ==
    [this |-> this,
     queries |-> IF settled.ok
                 THEN <<QueryCall(this.connection, this.sql, this.params)>>
                 ELSE <<QueryCall(this.connection, this.sql, this.params),
                        QueryCall(this.connection, this.sql, this.params)>>,
     outcome |-> IF settled.ok THEN Fulfilled(Array(settled.result.rows))
                 ELSE Failed(settled.error)]

execute(this, settled) ==
    [this |-> this,
     queries |-> <<QueryCall(this.connection, this.sql, this.params)>>,
     outcome |-> IF settled.ok THEN Fulfilled(Array(settled.result.rows))
                 ELSE Failed(settled.error)]

PgRepository(connection, entity) == [connection |-> connection, entity |-> entity]

\* the outcome of an async method that awaits e and then returns value
awaited(e, value) ==
    [queries |-> e.queries, outcome |-> IF e.outcome.ok THEN Fulfilled(value) ELSE e.outcome]

\* a || b
or(a, b) == IF truthy(a) THEN a ELSE b

PgRepository_findAll(this, settled) ==
    LET qb0 == PgQueryBuilder(1, this.connection, this.entity)
        qb1 == select(qb0, 2, keys(this.entity.columns)).ret
        e == execute(qb1, settled)
    IN awaited(e, e.outcome.value)

\* the condition findById passes to where
ById == Arrow(TRUE, "t", "id", "===", "id")

PgRepository_findById(this, id, settled) ==
    LET qb0 == PgQueryBuilder(1, this.connection, this.entity)
        qb1 == select(qb0, 2, keys(this.entity.columns)).this
        qb2 == where(qb1, 3, ById).this
        e == execute(qb2, settled)
    IN awaited(e, or(index(e.outcome.value, 0), Null))

PgRepository_findOne(this, condition, settled) ==
    LET qb0 == PgQueryBuilder(1, this.connection, this.entity)
        qb1 == select(qb0, 2, keys(this.entity.columns)).this
        qb2 == where(qb1, 3, condition).this
        e == execute(qb2, settled)
    IN awaited(e, or(index(e.outcome.value, 0), Null))

PgRepository_insert(this, rows, settled) ==
    LET qb0 == PgQueryBuilder(1, this.connection, this.entity)
        i == insert(qb0, 2, rows)
        e == execute(i.ret, settled)
    IN IF i.threw THEN [queries |-> <<>>, outcome |-> Failed("TypeError")]
       ELSE awaited(e, e.outcome.value)

PgRepository_update(this, columns, condition, settled) ==
    LET qb0 == PgQueryBuilder(1, this.connection, this.entity)
        qb1 == update(qb0, 2, columns).this
        qb2 == where(qb1, 3, condition).this
        e == execute(qb2, settled)
    IN awaited(e, e.outcome.value)

PgRepository_delete(this, condition, settled) ==
    LET qb0 == PgQueryBuilder(1, this.connection, this.entity)
        qb1 == delete(qb0, 2).this
        qb2 == where(qb1, 3, condition).this
        e == execute(qb2, settled)
    IN awaited(e, rowCountOf(e.outcome.value))

(***************************************************************************)
(* The inputs of the repository calls.                                     *)
(***************************************************************************)
Row1 == Object(<<Prop("id", Num(1))>>)
Row2 == Object(<<Prop("id", Num(2))>>)

\* a result object of the driver: rows and rowCount (for a DELETE: no rows,
\* and the number of rows deleted)
Result(rows, rowCount) == [type |-> "result", rows |-> rows, rowCount |-> rowCount]

Errors == {"connection refused", "syntax error"}

Settlements ==
    {[ok |-> TRUE, result |-> r, error |-> ""] :
        r \in {Result(<<>>, 0), Result(<<Row1, Row2>>, 2), Result(<<>>, 2)}}
      \cup {[ok |-> FALSE, result |-> Result(<<>>, 0), error |-> e] : e \in Errors}

Ids == {Num(1)}

\* builders to execute: a fresh one and compiled ones
Builders ==
    {PgQueryBuilder(1, "connection1", Comments),
     insert(PgQueryBuilder(1, "connection2", Users), 2,
            <<<<Prop("name", Str("A")), Prop("email", Str("a@x.com"))>>>>).ret}
      \cup {select(PgQueryBuilder(1, c, Comments), 2, <<"id", "content">>).ret : c \in Connections}

\* the rows and the columns the repository is given
RepositoryRows ==
    {<<>>,
     <<<<Prop("name", Str("A")), Prop("email", Str("a@x.com"))>>,
       <<Prop("name", Str("B")), Prop("email", Undefined)>>>>}

RepositoryColumns ==
    {<<Prop("name", Str("A")), Prop("email", Undefined)>>,
     <<Prop("content", Str("hello"))>>}

(***************************************************************************)
(* The repository specification: a caller awaits one repository or execute *)
(* call after another.                                                     *)
(***************************************************************************)
RepoDone(op, this, args, settled, r) ==
    /\ repoCall' = [op |-> op, this |-> this, args |-> args, settled |-> settled,
                    queries |-> r.queries, outcome |-> r.outcome]
    /\ queries' = queries \o r.queries
    /\ UNCHANGED <<qbVars, txVars, sessVars, regVars, dsVars>>

Repositories == {PgRepository(c, e) : c \in {"connection1"}, e \in Entities}

Execute ==
    /\ Len(queries) < MaxQueries
    /\ \E builder \in Builders, settled \in Settlements :
          LET r == execute(builder, settled)
          IN RepoDone("execute", builder, [after |-> r.this], settled, r)

RepoFindAll ==
    /\ Len(queries) < MaxQueries
    /\ \E this \in Repositories, settled \in Settlements :
          RepoDone("findAll", this, <<>>, settled, PgRepository_findAll(this, settled))

RepoFindById ==
    /\ Len(queries) < MaxQueries
    /\ \E this \in Repositories, id \in Ids, settled \in Settlements :
          RepoDone("findById", this, [id |-> id], settled,
                   PgRepository_findById(this, id, settled))

RepoFindOne ==
    /\ Len(queries) < MaxQueries
    /\ \E this \in Repositories, condition \in Conditions, settled \in Settlements :
          RepoDone("findOne", this, [condition |-> condition], settled,
                   PgRepository_findOne(this, condition, settled))

RepoInsert ==
    /\ Len(queries) < MaxQueries
    /\ \E this \in Repositories, rows \in RepositoryRows, settled \in Settlements :
          RepoDone("insert", this, [rows |-> rows], settled,
                   PgRepository_insert(this, rows, settled))

RepoUpdate ==
    /\ Len(queries) < MaxQueries
    /\ \E this \in Repositories, columns \in RepositoryColumns, condition \in Conditions,
          settled \in Settlements :
          RepoDone("update", this, [columns |-> columns, condition |-> condition], settled,
                   PgRepository_update(this, columns, condition, settled))

RepoDelete ==
    /\ Len(queries) < MaxQueries
    /\ \E this \in Repositories, condition \in Conditions, settled \in Settlements :
          RepoDone("delete", this, [condition |-> condition], settled,
                   PgRepository_delete(this, condition, settled))

InitRepo ==
    /\ queries = <<>>
    /\ repoCall = [op |-> "none"]

NextRepo ==
    \/ Execute
    \/ RepoFindAll
    \/ RepoFindById
    \/ RepoFindOne
    \/ RepoInsert
    \/ RepoUpdate
    \/ RepoDelete

(***************************************************************************)
(* DataSource.  An array carries the reference of the storage whose tables *)
(* array it is (shared), 0 when it is an array of its own: what a reader   *)
(* finds in an array of its own is what was put in it, what a reader finds *)
(* in a storage's array is what the storage holds at that moment.          *)
(***************************************************************************)
\* allTables.map(...), written into the storage's own tables array
mapped_inPlace(storage, items) == [shared |-> storage, items |-> items]

\* allTables.map(...): a new array
mapped(storage, items) == [shared |-> 0, items |-> items]

\* the elements a reader finds in array a
elements(a, heap) == IF a.shared = 0 THEN a.items ELSE build(heap[a.shared], Undefined)

\* mixedListToArray: the values of the list in key order
mixedListToArray(list) ==
    IF list # Undefined
    THEN List([k \in 1..Len(list.items) |-> list.items[k]])
    ELSE list

\* DataSource.buildMetadatas(entities)
buildMetadatas(g, heap, entities) ==
    LET got == getMetadataArgsStorage(g, heap)
        allEntities == mixedListToArray(entities)
    IN [globalScope |-> got.globalScope, storages |-> got.storages,
        ret |-> mapped(got.ret, build(got.storages[got.ret], allEntities))]

\* new PgConnection(options)
PgConnection(options) == [type |-> "PgConnection", val |-> options.name]

\* new DataSource(options), given the metadatas buildMetadatas returned
DataSource(options, entitiesMetadatas) ==
    [constructed |-> TRUE, name |-> options.name, type |-> options.type,
     entitiesMetadatas |-> entitiesMetadatas, connection |-> Undefined]

\* DataSource.initialize()
initialize(this) ==
    IF this.type = "postgres"
    THEN [this EXCEPT !.connection = PgConnection(this)]
    ELSE this

\* {...acc, [key]: value}
put(acc, key, value) ==
    IF \E i \in 1..Len(acc) : acc[i].key = key
    THEN [i \in 1..Len(acc) |-> IF acc[i].key = key THEN Prop(key, value) ELSE acc[i]]
    ELSE Append(acc, Prop(key, value))

\* columns.reduce((acc, curr) => ({...acc, [curr.propertyName]: curr.type}), {})
RECURSIVE reduce(_, _)
reduce(columns, acc) ==
    IF Len(columns) = 0 THEN acc
    ELSE reduce(Tail(columns), put(acc, columns[1].propertyName, columns[1].type))

\* entitiesMetadatas.find((metadata) => metadata.target === target)
find(metadatas, target) ==
    IF \E k \in 1..Len(metadatas) : metadatas[k].target = target
    THEN LET k == CHOOSE i \in 1..Len(metadatas) :
                     /\ metadatas[i].target = target
                     /\ \A j \in 1..(i - 1) : metadatas[j].target # target
         IN [found |-> TRUE, metadata |-> metadatas[k]]
    ELSE [found |-> FALSE]

\* DataSource.getRepository(target): the repository's entity has the columns
\* object and the table name of the schema found, both undefined when none is
getRepository(this, heap, target) ==
    LET test == find(elements(this.entitiesMetadatas, heap), target)
    IN PgRepository(this.connection,
                    [columns |-> IF test.found
                                 THEN Object(reduce(test.metadata.columns, <<>>))
                                 ELSE Undefined,
                     tableName |-> IF test.found THEN test.metadata.name ELSE Undefined])

\* a value interpolated into a template literal
templateText(v) == IF v = Undefined THEN "undefined" ELSE v.val

\* PgRepository.findAll on a repository getRepository returned:
\* Object.keys(this.entity.columns) throws when columns is undefined, and
\* this.connection.query in execute throws when connection is undefined
Repository_findAll(this, settled) ==
    IF this.entity.columns = Undefined
    THEN [queries |-> <<>>,
          outcome |-> Failed("TypeError: Cannot convert undefined or null to object")]
    ELSE IF this.connection = Undefined
    THEN [queries |-> <<>>,
          outcome |-> Failed("TypeError: Cannot read properties of undefined (reading 'query')")]
    ELSE PgRepository_findAll(
             PgRepository(this.connection,
                          [tableName |-> templateText(this.entity.tableName),
                           columns |-> this.entity.columns.props]),
             settled)

(***************************************************************************)
(* The DataSource specification: classes are declared through the          *)
(* decorators, before and after one DataSource is constructed; the         *)
(* DataSource is initialized, asked for repositories, and the repository   *)
(* it returned last is asked for all rows.                                 *)
(***************************************************************************)
DataSourceOptions ==
    {[name |-> "default", type |-> t, entities |-> List(<<User, Post>>)] :
        t \in {"postgres", "mysql"}}

RepositoryTargets == {User, UserTwin}

FindAllSettlements ==
    {[ok |-> TRUE, result |-> Result(<<Row1, Row2>>, 2), error |-> ""],
     [ok |-> FALSE, result |-> Result(<<>>, 0), error |-> "connection refused"]}

\* new DataSource(options)
DsConstruct ==
    /\ ~dataSource.constructed
    /\ \E options \in DataSourceOptions :
          LET got == buildMetadatas(globalScope, storages, options.entities)
          IN /\ dataSource' = DataSource(options, got.ret)
             /\ globalScope' = got.globalScope
             /\ storages' = got.storages
             /\ regCall' = [op |-> "DataSource", args |-> options, ret |-> got.ret]
    /\ UNCHANGED <<registered, qbVars, txVars, sessVars, repoVars>>

\* dataSource.initialize()
DsInitialize ==
    /\ dataSource.constructed
    /\ dataSource' = initialize(dataSource)
    /\ UNCHANGED <<globalScope, storages, registered, regCall>>
    /\ UNCHANGED <<qbVars, txVars, sessVars, repoVars>>

\* dataSource.getRepository(target)
DsGetRepository ==
    /\ dataSource.constructed
    /\ \E target \in RepositoryTargets :
          regCall' = [op |-> "getRepository", args |-> [target |-> target],
                      ret |-> getRepository(dataSource, storages, target)]
    /\ UNCHANGED <<globalScope, storages, registered, dataSource>>
    /\ UNCHANGED <<qbVars, txVars, sessVars, repoVars>>

\* repository.findAll() on the repository getRepository returned
DsFindAll ==
    /\ regCall.op = "getRepository"
    /\ \E settled \in FindAllSettlements :
          LET r == Repository_findAll(regCall.ret, settled)
          IN regCall' = [op |-> "findAll", this |-> regCall.ret, settled |-> settled,
                         queries |-> r.queries, outcome |-> r.outcome]
    /\ UNCHANGED <<globalScope, storages, registered, dataSource>>
    /\ UNCHANGED <<qbVars, txVars, sessVars, repoVars>>

InitDs == dataSource = [constructed |-> FALSE]

NextDs ==
    \/ RegEntity
    \/ RegColumn
    \/ DsConstruct
    \/ DsInitialize
    \/ DsGetRepository
    \/ DsFindAll

InitTx ==
    /\ client = [connectCalls |-> 0, endCalls |-> 0, sent |-> <<>>]
    /\ txs = <<>>
    /\ outcome = [op |-> "none"]

Init ==
    /\ \E connection \in Connections, entity \in Entities :
          qb = PgQueryBuilder(1, connection, entity)
    /\ chain = <<>>
    /\ call = NoCall
    /\ InitTx
    /\ InitSess
    /\ InitReg
    /\ InitRepo
    /\ InitDs

Next ==
    \/ Select
    \/ Insert
    \/ Update
    \/ Delete
    \/ InnerJoin
    \/ LeftJoin
    \/ Where
    \/ OrderBy
    \/ Limit
    \/ Offset

Spec == Init /\ [][Next]_vars

NextTx ==
    \/ ConnQuery
    \/ ConnBeginTransaction
    \/ ConnClose
    \/ TxQuery
    \/ TxBeginTransaction
    \/ TxCommit
    \/ TxRollback
    \/ TxClose

SpecTx == Init /\ [][NextTx]_vars

SpecSess == Init /\ [][NextSess]_vars

SpecReg == Init /\ [][NextReg]_vars

SpecRepo == Init /\ [][NextRepo]_vars

SpecDs == Init /\ [][NextDs]_vars

(***************************************************************************)
(* Reading a compiled statement back: the placeholders, the value slots    *)
(* and the quoted identifiers that occur in a SQL text.                    *)
(***************************************************************************)
Digits == <<"0","1","2","3","4","5","6","7","8","9">>

IsDigit(c) == \E k \in 1..10 : Digits[k] = c

DigitVal(c) == (CHOOSE k \in 1..10 : Digits[k] = c) - 1

\* the number written in decimal at position i of text (acc: the digits read so far)
RECURSIVE NumberAt(_, _, _)
NumberAt(text, i, acc) ==
    IF i <= Len(text) /\ IsDigit(At(text, i))
    THEN NumberAt(text, i + 1, acc * 10 + DigitVal(At(text, i)))
    ELSE acc

\* the elements of a set of numbers in increasing order
RECURSIVE Sorted(_)
Sorted(S) ==
    IF S = {} THEN <<>>
    ELSE LET m == CHOOSE k \in S : \A n \in S : k <= n
         IN <<m>> \o Sorted(S \ {m})

\* the value slots of a statement in order of occurrence: 0 for a literal NULL,
\* n for a placeholder $n
ValueSlots(text) ==
    LET at == Sorted({i \in 1..Len(text) : At(text, i) = "$" \/ IsAt(text, i, "NULL")})
    IN [k \in 1..Len(at) |->
           IF At(text, at[k]) = "$" THEN NumberAt(text, at[k] + 1, 0) ELSE 0]

\* the numbers of the placeholders of a statement in order of occurrence
Placeholders(text) == SelectSeq(ValueSlots(text), LAMBDA n : n # 0)

\* the texts between pairs of double quotes, in order of occurrence
QuotedIdents(text) ==
    LET at == Sorted({i \in 1..Len(text) : At(text, i) = DQ})
    IN [k \in 1..(Len(at) \div 2) |-> SubSeq(text, at[2 * k - 1] + 1, at[2 * k] - 1)]

\* the slots of each parenthesised group that follows the word VALUES
ValueGroups(text) ==
    LET v == IndexOf(text, "VALUES", 1)
        open == IF v = 0 THEN <<>>
                ELSE Sorted({i \in v..Len(text) : At(text, i) = "("})
    IN [k \in 1..Len(open) |->
           ValueSlots(SubSeq(text, open[k] + 1, IndexOf(text, ")", open[k]) - 1))]

StartsWith(text, word) == IsAt(text, 1, word)

EndsWith(text, word) ==
    Len(word) <= Len(text) /\ SubSeq(text, Len(text) - Len(word) + 1, Len(text)) = word

RECURSIVE Flatten(_)
Flatten(seqs) == IF Len(seqs) = 0 THEN <<>> ELSE seqs[1] \o Flatten(Tail(seqs))

UpTo(n) == [i \in 1..n |-> i]

\* the values an insert binds, row by row: for each row, the value it has for
\* each key of the first row
RowValuesOf(rows) ==
    Flatten([r \in 1..Len(rows) |->
                [c \in 1..Len(rows[1]) |-> get(rows[r], rows[1][c].key)]])

\* the values an update binds, key by key
UpdateValuesOf(columns) == [c \in 1..Len(columns) |-> columns[c].value]

Defined(v) == v # Undefined

\* how many of the first i values are defined
DefinedUpTo(values, i) == Cardinality({k \in 1..i : Defined(values[k])})

(***************************************************************************)
(* The claims about the query builder, checked under Spec.                 *)
(***************************************************************************)

\* C1: in every builder a chain of calls reaches, the placeholders of the sql are
\* $1..$n in order, where n is the length of params (a modifier applied to an
\* insert or an update still carries the parameters of the root statement).
C1_ParamsMatchPlaceholders ==
    call.op # "none" => Placeholders(qb.sql) = UpTo(Len(qb.params))

\* C2: a builder method leaves its receiver (sql, params, entity) as it was before
\* the call, and the builder it returns is another object, bound to the receiver's
\* connection.
C2_ReceiverUnchanged ==
    call.op # "none" =>
        /\ call.this = call.receiver
        /\ ~call.threw =>
              /\ call.ret.ref # call.receiver.ref
              /\ call.ret.connection = call.receiver.connection

\* a modifier was called on a builder that holds a statement and parameters
C2_Witness ==
    /\ call.op = "where"
    /\ call.receiver.sql # ""
    /\ call.receiver.params # <<>>

\* every row has the keys of the first row, in its order, and no undefined value
Uniform(rows) ==
    \A r \in 1..Len(rows) :
        /\ keys(rows[r]) = keys(rows[1])
        /\ \A c \in 1..Len(rows[r]) : Defined(rows[r][c].value)

\* C3: an insert of N rows with the same K columns and no undefined value compiles
\* to N groups of K placeholders, the one of column c of row r being $((r-1)*K + c),
\* and params holds the N*K values in the same order.
C3_InsertRowMajor ==
    (call.op = "insert" /\ Len(call.args.rows) >= 1 /\ Uniform(call.args.rows)) =>
        LET rows == call.args.rows
            N == Len(rows)
            K == Len(rows[1])
            groups == ValueGroups(call.ret.sql)
        IN /\ Placeholders(call.ret.sql) = UpTo(N * K)
           /\ Len(groups) = N
           /\ Len(call.ret.params) = N * K
           /\ \A r \in 1..N :
                 /\ Len(groups[r]) = K
                 /\ \A c \in 1..K :
                       /\ groups[r][c] = (r - 1) * K + c
                       /\ call.ret.params[(r - 1) * K + c] = rows[r][c].value

\* an insert of two rows of two columns each, no value undefined
C3_Witness ==
    /\ call.op = "insert"
    /\ Uniform(call.args.rows)
    /\ Len(call.args.rows) = 2
    /\ Len(call.args.rows[1]) = 2

\* the values the last call binds, when it is an insert or an update
BoundValues ==
    IF call.op = "insert" THEN RowValuesOf(call.args.rows)
    ELSE UpdateValuesOf(call.args.columns)

\* C4: in an insert and in an update, an undefined or absent value is written as
\* NULL and adds nothing to params, and a defined value gets the placeholder
\* numbered one more than the placeholders written before it.
C4_UndefinedTakesNoSlot ==
    (call.op \in {"insert", "update"} /\ ~call.threw) =>
        LET values == BoundValues
            slots == ValueSlots(call.ret.sql)
        IN /\ Len(slots) = Len(values)
           /\ \A i \in 1..Len(values) :
                 slots[i] = IF Defined(values[i]) THEN DefinedUpTo(values, i) ELSE 0
           /\ call.ret.params = SelectSeq(values, Defined)

\* an insert in which an undefined value comes before a defined one
C4_Witness ==
    /\ call.op = "insert"
    /\ ~call.threw
    /\ \E i, j \in 1..Len(RowValuesOf(call.args.rows)) :
          /\ i < j
          /\ ~Defined(RowValuesOf(call.args.rows)[i])
          /\ Defined(RowValuesOf(call.args.rows)[j])

\* the condition the specification expects of a predicate param => param.column op rhs
RewrittenCondition(condition, tableName) ==
    DQ \o tableName \o DQ \o "." \o DQ \o condition.column \o DQ
        \o " " \o condition.op \o " " \o condition.rhs

\* C5: where(p) on a builder whose sql is S returns a builder whose sql is S, then
\* " WHERE ", then p's comparison with the access through p's parameter rewritten
\* to "table"."column".
C5_WhereAppendsRewritten ==
    call.op = "where" =>
        call.ret.sql = call.receiver.sql \o " WHERE "
                          \o RewrittenCondition(call.args.condition,
                                                call.receiver.entity.tableName)

\* the chain select("id","content").where(c => c.postId == 5).orderBy("id","asc").limit(10)
\* on the comments entity
CommentsScenario ==
    /\ qb.entity = Comments
    /\ Len(chain) = 4
    /\ chain[1].op = "select" /\ chain[1].args.columns = <<"id", "content">>
    /\ chain[2].op = "where"
    /\ chain[2].args.condition = Arrow(FALSE, "c", "postId", "==", "5")
    /\ chain[3].op = "orderBy"
    /\ chain[3].args.column = "id" /\ chain[3].args.direction = "asc"
    /\ chain[4].op = "limit" /\ chain[4].args.count = 10

\* C6: the scenario chain on comments compiles to
\* SELECT "id", "content" FROM "comments" WHERE "comments"."postId" == 5 ORDER BY "id" ASC LIMIT 10
\* with no parameters.
C6_CommentsScenarioSql ==
    CommentsScenario =>
        /\ qb.sql = "SELECT \"id\", \"content\" FROM \"comments\" WHERE "
                       \o "\"comments\".\"postId\" == 5 ORDER BY \"id\" ASC LIMIT 10"
        /\ qb.params = <<>>

\* insert({name:"A", email:"a@x.com"}, {name:"B", email: undefined})
ScenarioRows ==
    <<<<Prop("name", Str("A")), Prop("email", Str("a@x.com"))>>,
      <<Prop("name", Str("B")), Prop("email", Undefined)>>>>

C8_SelectQuotesColumns ==
    call.op = "select" =>
        LET T == call.receiver.entity.tableName
        IN /\ QuotedIdents(call.ret.sql) = call.args.columns \o <<T>>
           /\ StartsWith(call.ret.sql, "SELECT ")
           /\ EndsWith(call.ret.sql, " FROM " \o DQ \o T \o DQ)
           /\ call.ret.params = <<>>

\* a select of three columns on a builder that already holds a statement
C8_Witness ==
    /\ call.op = "select"
    /\ Len(call.args.columns) = 3
    /\ call.receiver.sql # ""

(***************************************************************************)
(* The claims about transactions, checked under SpecTx.                    *)
(***************************************************************************)

\* C9: beginTransaction and close on a transaction object fail with an error,
\* whatever the transaction has been through, and leave the driver's client
\* untouched: no statement sent, no connect, no end.
C9_TransactionRejectsBeginAndClose ==
    outcome.op \in {"tx.beginTransaction", "tx.close"} =>
        /\ ~outcome.result.ok
        /\ outcome.result.error \in {"Cannot begin a nested transaction",
                                    "Cannot close a transaction"}
        /\ client = outcome.before

\* close was called on a transaction whose commit had resolved
C9_Witness ==
    /\ outcome.op = "tx.close"
    /\ txs[outcome.tx] = <<"COMMIT">>
    /\ Len(client.sent) >= 2

\* C10: once a commit on a transaction has resolved, no later commit or rollback
\* on that transaction resolves: a transaction is ended by one COMMIT or ROLLBACK.
C10_TransactionEndsOnce ==
    \A t \in DOMAIN txs : Len(txs[t]) <= 1

(***************************************************************************)
(* C11: while a transaction is open, no statement issued by another call   *)
(* chain than the one that holds the transaction (through the connection's *)
(* query or through a second beginTransaction) is executed on the session  *)
(* of the transaction.                                                     *)
(***************************************************************************)
C11_TransactionOwnsSession ==
    \A i \in DOMAIN issued :
        \A t \in issued[i].open : issued[i].chain = held[t].chain

(***************************************************************************)
(* Reading the registrations back: the records of one kind that were       *)
(* pushed, oldest first, and the ones among them whose target is one of a  *)
(* set of classes (compared by identity).                                  *)
(***************************************************************************)
RegisteredAs(kind) ==
    LET of == SelectSeq(registered, LAMBDA r : r.kind = kind)
    IN [k \in 1..Len(of) |-> of[k].record]

Pick(records, refs) ==
    LET at == Sorted({i \in 1..Len(records) : records[i].target.ref \in refs})
    IN [k \in 1..Len(at) |-> records[at[k]]]

RefsOf(target) == {target.items[k].ref : k \in 1..Len(target.items)}

(***************************************************************************)
(* C12: however the calls of the call chains are ordered, at most one      *)
(* MetadataArgsStorage instance is ever constructed, every call of         *)
(* getMetadataArgsStorage (the first and the later ones) returns that one  *)
(* instance, and it holds every record any caller registered.              *)
(***************************************************************************)
C12_OneSharedStorage ==
    /\ Len(storages) <= 1
    /\ regCall.op # "none" =>
          /\ regCall.storage = 1
          /\ globalScope.ormMetadataArgsStorage = 1
          /\ storages[1].tables = RegisteredAs("table")
          /\ storages[1].columns = RegisteredAs("column")

\* a later call of getMetadataArgsStorage, after a table and a column were
\* registered through earlier calls
C12_Witness ==
    /\ regCall.op = "getMetadataArgsStorage"
    /\ regCall.ret = 1
    /\ Len(RegisteredAs("table")) >= 1
    /\ Len(RegisteredAs("column")) >= 1

(***************************************************************************)
(* C13: filterTables(targets) and filterColumns(target) return exactly the *)
(* registered records whose target is the given class (or one of the given *)
(* classes), as often as they were registered and in the order of          *)
(* registration; a class of the same name is another target.               *)
(***************************************************************************)
C13_FilterByIdentity ==
    /\ regCall.op = "filterTables" =>
          regCall.ret = Pick(RegisteredAs("table"), RefsOf(regCall.args.target))
    /\ regCall.op = "filterColumns" =>
          regCall.ret = Pick(RegisteredAs("column"), RefsOf(regCall.args.target))

\* filterTables(User) with User registered twice and its namesake once
C13_Witness ==
    /\ regCall.op = "filterTables"
    /\ regCall.args.target = One(User)
    /\ Len(regCall.ret) = 2
    /\ \E k \in 1..Len(registered) : registered[k].record.target = UserTwin

(***************************************************************************)
(* C14: build(targets) returns one schema per registered table of the      *)
(* listed targets, in the order the tables were registered whatever the    *)
(* order of the list, and the columns of each schema are the column        *)
(* records of its target in the order they were registered.                *)
(***************************************************************************)
C14_BuildInRegistrationOrder ==
    (regCall.op = "build" /\ regCall.args.target # Undefined) =>
        LET tables == Pick(RegisteredAs("table"), RefsOf(regCall.args.target))
        IN /\ Len(regCall.ret) = Len(tables)
           /\ \A k \in 1..Len(tables) :
                 /\ regCall.ret[k].target = tables[k].target
                 /\ regCall.ret[k].name = tables[k].name
                 /\ regCall.ret[k].columns =
                        Pick(RegisteredAs("column"), {tables[k].target.ref})

\* build([Post, User]) with User's table registered before Post's, and a column
\* of User: the schema of User comes first
C14_Witness ==
    /\ regCall.op = "build"
    /\ regCall.args.target = List(<<Post, User>>)
    /\ Len(regCall.ret) = 2
    /\ regCall.ret[1].target = User
    /\ Len(regCall.ret[1].columns) = 1
    /\ regCall.ret[2].target = Post

(***************************************************************************)
(* C15: build(targets) returns (it raises no error) when a listed target   *)
(* has no registered table; such a target has no schema in the result,     *)
(* also when columns are registered for it, and a list of only such        *)
(* targets gives the empty list.                                           *)
(***************************************************************************)
C15_BuildSkipsUnregistered ==
    (regCall.op = "build" /\ regCall.args.target # Undefined) =>
        LET listed == RefsOf(regCall.args.target)
            tabled == {RegisteredAs("table")[k].target.ref :
                          k \in 1..Len(RegisteredAs("table"))}
        IN /\ \A k \in 1..Len(regCall.ret) : regCall.ret[k].target.ref \in listed \cap tabled
           /\ listed \cap tabled = {} => regCall.ret = <<>>

\* build([UserTwin]) when UserTwin has a column but no table, and another
\* class has a table
C15_Witness ==
    /\ regCall.op = "build"
    /\ regCall.args.target = List(<<UserTwin>>)
    /\ regCall.ret = <<>>
    /\ Len(RegisteredAs("table")) >= 1
    /\ \E k \in 1..Len(RegisteredAs("column")) : RegisteredAs("column")[k].target = UserTwin

(***************************************************************************)
(* Reading a repository call back.                                         *)
(***************************************************************************)
Contains(text, word) == IndexOf(text, word, 1) # 0

\* the first row of a result, null when it has no row
FirstRow(result) == IF Len(result.rows) = 0 THEN Null ELSE result.rows[1]

(***************************************************************************)
(* C16: findById(id) and findOne(p) send one statement that selects every  *)
(* declared column of the entity's table and carries a WHERE filter, and   *)
(* return the first of the reported rows, null when there is none.         *)
(***************************************************************************)
C16_FindSendsFilteredSelect ==
    repoCall.op \in {"findById", "findOne"} =>
        /\ Len(repoCall.queries) = 1
        /\ StartsWith(repoCall.queries[1].sql, "SELECT ")
        /\ QuotedIdents(repoCall.queries[1].sql) =
               keys(repoCall.this.entity.columns) \o <<repoCall.this.entity.tableName>>
        /\ Contains(repoCall.queries[1].sql, " WHERE")
        /\ repoCall.settled.ok => repoCall.outcome = Fulfilled(FirstRow(repoCall.settled.result))

(***************************************************************************)
(* C17: update(columns, p) sends exactly the statement and the parameters  *)
(* that the builder chain update(columns).where(p) compiles for the        *)
(* repository's entity.                                                    *)
(***************************************************************************)
C17_UpdateSendsCompiledChain ==
    repoCall.op = "update" =>
        LET qb0 == PgQueryBuilder(1, repoCall.this.connection, repoCall.this.entity)
            compiled == where(update(qb0, 2, repoCall.args.columns).ret, 3,
                              repoCall.args.condition).ret
        IN repoCall.queries =
               <<QueryCall(repoCall.this.connection, compiled.sql, compiled.params)>>

(***************************************************************************)
(* C18: delete(p) sends a DELETE FROM the entity's table with a WHERE      *)
(* suffix and returns the rowCount of the connection's result.             *)
(***************************************************************************)
C18_DeleteReturnsRowCount ==
    repoCall.op = "delete" =>
        /\ Len(repoCall.queries) = 1
        /\ StartsWith(repoCall.queries[1].sql,
                      "DELETE FROM " \o DQ \o repoCall.this.entity.tableName \o DQ)
        /\ Contains(repoCall.queries[1].sql, " WHERE")
        /\ repoCall.settled.ok =>
               repoCall.outcome = Fulfilled(Num(repoCall.settled.result.rowCount))

(***************************************************************************)
(* C19: execute() calls the query of the builder's connection exactly once *)
(* with the builder's sql and params and returns the rows of the result;   *)
(* when the query fails, execute fails with the same error, without a      *)
(* second call, and the builder is as it was.                              *)
(***************************************************************************)
C19_ExecuteSendsOnce ==
    repoCall.op = "execute" =>
        /\ repoCall.queries =
               <<QueryCall(repoCall.this.connection, repoCall.this.sql, repoCall.this.params)>>
        /\ repoCall.args.after = repoCall.this
        /\ IF repoCall.settled.ok
           THEN repoCall.outcome = Fulfilled(Array(repoCall.settled.result.rows))
           ELSE ~repoCall.outcome.ok /\ repoCall.outcome.error = repoCall.settled.error

\* execute of a compiled insert with parameters, whose query fails with a
\* syntax error
C19_Witness ==
    /\ repoCall.op = "execute"
    /\ Len(repoCall.this.params) = 2
    /\ ~repoCall.settled.ok
    /\ repoCall.outcome.error = "syntax error"

(***************************************************************************)
(* C20: a column declared with a sql type gets a record of exactly that    *)
(* type; a column declared without one gets "varchar(255)" when the value  *)
(* of the property is a string and "int" otherwise.                        *)
(***************************************************************************)
C20_DeclaredTypeKept ==
    regCall.op = "Column" =>
        LET declared == optional(regCall.args.options, "type")
            value == get(regCall.args.object.properties, regCall.args.propertyName)
        IN IF declared # Undefined
           THEN regCall.ret.type = declared.val
           ELSE regCall.ret.type = IF value.type = "string" THEN "varchar(255)" ELSE "int"

(***************************************************************************)
(* C21: innerJoin(e2, on) and leftJoin(e2, on) on a builder for e1 return  *)
(* a builder whose entity has every column of e1 and every column of e2,   *)
(* and whose sql is SELECT * FROM "t1" INNER|LEFT JOIN "t2" ON followed by *)
(* the comparison of on, each side qualified with its own table.           *)
(***************************************************************************)
C21_JoinMergesColumns ==
    (call.op \in {"innerJoin", "leftJoin"} /\ ~call.threw) =>
        LET e1 == call.receiver.entity
            e2 == call.args.entity
            on == call.args.on
            kind == IF call.op = "innerJoin" THEN "INNER" ELSE "LEFT"
            has == {call.ret.entity.columns[k].key : k \in 1..Len(call.ret.entity.columns)}
        IN /\ \A k \in 1..Len(e1.columns) : e1.columns[k].key \in has
           /\ \A k \in 1..Len(e2.columns) : e2.columns[k].key \in has
           /\ call.ret.sql =
                  "SELECT * FROM " \o DQ \o e1.tableName \o DQ \o " " \o kind \o " JOIN "
                     \o DQ \o e2.tableName \o DQ \o " ON "
                     \o DQ \o e1.tableName \o DQ \o "." \o DQ \o on.left \o DQ
                     \o " " \o on.op \o " "
                     \o DQ \o e2.tableName \o DQ \o "." \o DQ \o on.right \o DQ

(***************************************************************************)
(* C22: the builder a root call (select, insert, update, delete) returns   *)
(* has the sql and the params the same call returns on a builder of the    *)
(* same entity that has compiled nothing: what the receiver has            *)
(* accumulated plays no part.                                              *)
(***************************************************************************)
RootResult(op, this, ref, args) ==
    CASE op = "select" -> select(this, ref, args.columns)
      [] op = "insert" -> insert(this, ref, args.rows)
      [] op = "update" -> update(this, ref, args.columns)
      [] op = "delete" -> delete(this, ref)

C22_RootIgnoresReceiver ==
    (call.op \in {"select", "insert", "update", "delete"} /\ ~call.threw) =>
        LET fresh == PgQueryBuilder(call.receiver.ref, call.receiver.connection,
                                    call.receiver.entity)
            r == RootResult(call.op, fresh, call.ret.ref, call.args)
        IN /\ call.ret.sql = r.ret.sql
           /\ call.ret.params = r.ret.params

\* an update called on a builder that holds an insert with parameters
C22_Witness ==
    /\ call.op = "update"
    /\ StartsWith(call.receiver.sql, "INSERT")
    /\ Len(call.receiver.params) >= 2

(***************************************************************************)
(* C23: the sql after a root statement R and modifier calls is R followed  *)
(* by the suffix of each modifier in call order: each modifier call        *)
(* appends its suffix to the receiver's sql.  The suffix of orderBy(c, d)  *)
(* is ORDER BY "c" and d in upper case, of limit(n) LIMIT n, of offset(n)  *)
(* OFFSET n; the suffix of where(p) is the WHERE text where(p) yields on   *)
(* an empty statement.                                                     *)
(***************************************************************************)
Modifiers == {"where", "orderBy", "limit", "offset"}

Suffix(op, args, builder) ==
    CASE op = "where" ->
           where(PgQueryBuilder(builder.ref, builder.connection, builder.entity),
                 builder.ref, args.condition).ret.sql
      [] op = "orderBy" ->
           " ORDER BY " \o DQ \o args.column \o DQ \o " "
              \o (IF args.direction = "asc" THEN "ASC" ELSE "DESC")
      [] op = "limit" -> " LIMIT " \o ToString(args.count)
      [] op = "offset" -> " OFFSET " \o ToString(args.count)

RECURSIVE ConcatText(_)
ConcatText(texts) == IF Len(texts) = 0 THEN "" ELSE texts[1] \o ConcatText(Tail(texts))

\* the suffixes of the modifier calls of the chain, in call order
ChainSuffixes ==
    LET mods == SelectSeq(chain, LAMBDA e : e.op \in Modifiers)
    IN ConcatText([k \in 1..Len(mods) |-> Suffix(mods[k].op, mods[k].args, qb)])

C23_ModifiersAccumulate ==
    /\ call.op \in Modifiers =>
          /\ call.ret.sql = call.receiver.sql \o Suffix(call.op, call.args, call.receiver)
          /\ call.op = "where" =>
                StartsWith(Suffix(call.op, call.args, call.receiver), " WHERE")
    /\ EndsWith(qb.sql, ChainSuffixes)
    /\ (Len(chain) >= 1 /\ chain[1].op \in Modifiers) => qb.sql = ChainSuffixes
    /\ (Len(chain) >= 1 /\ chain[1].op \in Roots) =>
          Len(qb.sql) > Len(ChainSuffixes)

\* a root statement followed by two different where calls and an orderBy
C23_Witness ==
    /\ Len(chain) = 4
    /\ chain[1].op = "select"
    /\ chain[2].op = "where" /\ chain[3].op = "where"
    /\ chain[2].args # chain[3].args
    /\ chain[4].op = "orderBy"

(***************************************************************************)
(* C26: the column list of an insert is the keys of the first row in       *)
(* order; every row has one value per such column; a row without one of    *)
(* these columns gets NULL for it, which takes no placeholder; a key that  *)
(* only a later row has is in neither the sql nor the params.              *)
(***************************************************************************)
C26_InsertUsesFirstRowKeys ==
    (call.op = "insert" /\ ~call.threw) =>
        LET rows == call.args.rows
            cols == keys(rows[1])
            groups == ValueGroups(call.ret.sql)
        IN /\ QuotedIdents(call.ret.sql) = <<call.receiver.entity.tableName>> \o cols
           /\ Len(groups) = Len(rows)
           /\ \A r \in 1..Len(rows) :
                 /\ Len(groups[r]) = Len(cols)
                 /\ \A c \in 1..Len(cols) :
                       IF get(rows[r], cols[c]) = Undefined
                       THEN groups[r][c] = 0
                       ELSE /\ groups[r][c] \in 1..Len(call.ret.params)
                            /\ call.ret.params[groups[r][c]] = get(rows[r], cols[c])
                 /\ \A c \in 1..Len(rows[r]) :
                       (\A k \in 1..Len(cols) : cols[k] # rows[r][c].key) =>
                           ~Contains(call.ret.sql, DQ \o rows[r][c].key \o DQ)
           /\ call.ret.params = SelectSeq(RowValuesOf(rows), Defined)

\* an insert whose second row lacks a column of the first and has a key of its own
C26_Witness ==
    /\ call.op = "insert"
    /\ call.args.rows =
          <<<<Prop("name", Str("A")), Prop("email", Str("a@x.com"))>>,
            <<Prop("email", Str("b@x.com")), Prop("id", Str("9"))>>>>
    /\ call.ret.params = <<Str("A"), Str("a@x.com"), Str("b@x.com")>>

(***************************************************************************)
(* C25: a beginTransaction or a close on a transaction is rejected and     *)
(* changes nothing: the client and the transactions are as before the      *)
(* call, so that a query, a commit or a rollback on the transaction        *)
(* afterwards does what it would have done without the rejected call.      *)
(***************************************************************************)
C25_RejectedCallChangesNothing ==
    [][outcome'.op \in {"tx.beginTransaction", "tx.close"} =>
          /\ ~outcome'.result.ok
          /\ client' = client
          /\ txs' = txs
          /\ \A sql \in Statements, connectOk \in BOOLEAN, queryOk \in BOOLEAN :
                /\ PgTransaction_query(client', sql, connectOk, queryOk)
                      = PgTransaction_query(client, sql, connectOk, queryOk)
                /\ PgTransaction_commit(client', connectOk, queryOk)
                      = PgTransaction_commit(client, connectOk, queryOk)
                /\ PgTransaction_rollback(client', connectOk, queryOk)
                      = PgTransaction_rollback(client, connectOk, queryOk)]_vars

\* a nested beginTransaction was rejected on a transaction that is still open
\* and has already run a statement
C25_Witness ==
    /\ outcome.op = "tx.beginTransaction"
    /\ txs[outcome.tx] = <<>>
    /\ \E i \in 1..Len(client.sent) : client.sent[i] = "SELECT 1"

(***************************************************************************)
(* C27: every statement a call hands to the driver's client (the BEGIN of  *)
(* beginTransaction too) is handed over when the client's connect has been *)
(* invoked exactly once since the connection was made.                     *)
(***************************************************************************)
C27_ConnectedExactlyOnce ==
    (outcome.op # "none" /\ Len(client.sent) > Len(outcome.before.sent)) =>
        client.connectCalls = 1

(***************************************************************************)
(* C24: the registry checks no uniqueness and never removes or rewrites a  *)
(* record: at every step the tables and the columns of a storage extend    *)
(* what they were; build returns as many schemas for a target as tables    *)
(* were registered for it, and each of them lists a column as often as it  *)
(* was registered for that target and property name.                       *)
(***************************************************************************)
IsPrefix(a, b) == Len(a) <= Len(b) /\ SubSeq(b, 1, Len(a)) = a

Count(records, Test(_)) == Len(SelectSeq(records, Test))

C24_RegistryOnlyGrows ==
    /\ [][\A r \in DOMAIN storages :
             /\ r \in DOMAIN storages'
             /\ IsPrefix(storages[r].tables, storages'[r].tables)
             /\ IsPrefix(storages[r].columns, storages'[r].columns)]_vars
    /\ [](regCall.op = "build" =>
             LET listed == IF regCall.args.target = Undefined
                           THEN {t.ref : t \in Targets}
                           ELSE RefsOf(regCall.args.target)
             IN /\ \A t \in Targets :
                      t.ref \in listed =>
                          Count(regCall.ret, LAMBDA schema : schema.target = t)
                             = Count(RegisteredAs("table"), LAMBDA table : table.target = t)
                /\ \A k \in 1..Len(regCall.ret) :
                      \A j \in 1..Len(RegisteredAs("column")) :
                          LET column == RegisteredAs("column")[j]
                              Same(c) == /\ c.target = column.target
                                         /\ c.propertyName = column.propertyName
                          IN column.target = regCall.ret[k].target =>
                                 Count(regCall.ret[k].columns, Same)
                                    = Count(RegisteredAs("column"), Same))

\* build after two table registrations for User and one column: two schemas
\* for User, each listing the column
C24_Witness ==
    /\ regCall.op = "build"
    /\ Len(regCall.ret) = 2
    /\ regCall.ret[1].target = User /\ regCall.ret[2].target = User
    /\ Len(regCall.ret[1].columns) = 1 /\ Len(regCall.ret[2].columns) = 1

(***************************************************************************)
(* C28: the schema list a DataSource built in its constructor is a         *)
(* snapshot: whatever is registered afterwards, a reader of                *)
(* entitiesMetadatas finds the same schemas, with the same table names and *)
(* the same columns, as right after the constructor.                       *)
(***************************************************************************)
C28_BuiltSchemasAreSnapshot ==
    [][(dataSource.constructed /\ dataSource'.constructed) =>
          elements(dataSource'.entitiesMetadatas, storages')
             = elements(dataSource.entitiesMetadatas, storages)]_vars

\* after the constructor built a schema for User, a table and a column were
\* registered for User
C28_Witness ==
    /\ dataSource.constructed
    /\ Len(dataSource.entitiesMetadatas.items) = 1
    /\ dataSource.entitiesMetadatas.items[1].target = User
    /\ Len(Pick(RegisteredAs("table"), {User.ref})) = 2
    /\ Len(Pick(RegisteredAs("column"), {User.ref}))
          > Len(dataSource.entitiesMetadatas.items[1].columns)

(***************************************************************************)
(* C29: a repository getRepository returns is bound to a connection and to *)
(* a schema with a table name and a columns map, whatever the order of     *)
(* constructor, initialize and getRepository, the type and the target; its *)
(* findAll sends one statement to the connection.                          *)
(***************************************************************************)
C29_RepositoryIsBound ==
    /\ regCall.op = "getRepository" =>
          /\ regCall.ret.connection # Undefined
          /\ regCall.ret.entity.columns # Undefined
          /\ regCall.ret.entity.tableName # Undefined
    /\ regCall.op = "findAll" => Len(regCall.queries) = 1
====
